---- MODULE Spec2Model ----
(***************************************************************************)
(* Model of the answer-scoring engine of simple_stresscheck (src/lib.rs):  *)
(* the AnswerStore (push, insert), the reverse adjustment, the sum-up and  *)
(* conversion scorers and the two has_stress rules.                        *)
(***************************************************************************)
EXTENDS Integers, Sequences, FiniteSets, TLC

VARIABLES
    values,   \* AnswerStore.values: [u8; 57], 1-based here (slot i = question i)
    offset,   \* AnswerStore.offset: next append position, 0-based as in the code
    last,     \* environment: the score of the last successful push (0: none yet)
    runs,     \* environment: number of runs of equal scores pushed so far
    result,   \* the value returned by the last call on the store or a literal
    out       \* what has_stress() on result.val returned and, for a
              \* ConversionScore, the triple its call of scores() gave it

vars == <<values, offset, last, runs, result, out>>

----------------------------------------------------------------------------
(* Program constants *)

NumQuestions == 57
U8Modulus == 256

(* Bounds of the environment *)

\* Successful pushes form at most MaxRuns runs of equal scores.
MaxRuns == 1
\* The fully populated stores scored directly have at most MaxLevels runs.
MaxLevels == 2

\* u8 arguments tried for a score: both neighbours of the legal range 1..4.
ScoreInputs == {0, 1, 4, 5}
\* u8 arguments tried for a question number: both ends and their neighbours.
QuestionInputs == {0, 1, 57, 58}
\* All legal answers.
Answers == 1..4

----------------------------------------------------------------------------
(* u8 arithmetic and iterator adaptors *)

Wrap(x) == x % U8Modulus

Fits(x) == x >= 0 /\ x < U8Modulus

Min(a, b) == IF a < b THEN a ELSE b

Take(s, n) == SubSeq(s, 1, Min(n, Len(s)))

Skip(s, n) == SubSeq(s, Min(n, Len(s)) + 1, Len(s))

\* the sum of the first n elements of s
RECURSIVE SumTo(_, _)
SumTo(s, n) == IF n = 0 THEN 0 ELSE SumTo(s, n - 1) + s[n]

\* Iterator::sum, as an unbounded integer
Sum(s) == SumTo(s, Len(s))

\* slice.get(i) with a 0-based index: <<>> is None
Get(s, i) == IF i < Len(s) THEN <<s[i + 1]>> ELSE <<>>

\* slip: only the first slot is examined
AnyUnset_FirstOnly(vs) == vs[1] = 0

\* self.values.iter().any(|&value| value == 0)
AnyUnset(vs) == \E i \in 1..Len(vs) : vs[i] = 0

----------------------------------------------------------------------------
(* reverse_if *)

\* slip: the second range runs to 14 instead of 13
reverse_if_Wide(id, score) ==
    IF id >= 1 /\ id <= 7 THEN 5 - score
    ELSE IF id >= 11 /\ id <= 14 THEN 5 - score
    ELSE IF id = 15 THEN 5 - score
    ELSE IF id >= 18 /\ id <= 20 THEN 5 - score
    ELSE score

reverse_if(id, score) ==
    IF id >= 1 /\ id <= 7 THEN 5 - score
    ELSE IF id >= 11 /\ id <= 13 THEN 5 - score
    ELSE IF id = 15 THEN 5 - score
    ELSE IF id >= 18 /\ id <= 20 THEN 5 - score
    ELSE score

----------------------------------------------------------------------------
(* AnswerStore::to_sumup_score *)

\* the local Vec `values`: every answer after reverse_if, ids counted from 1
SumupAdjusted(vs) == [i \in 1..Len(vs) |-> reverse_if(i, vs[i])]

\* slip: the second window starts one answer late
SumupSums_SkipEighteen(adj) ==
    [sum_a |-> Sum(Take(adj, 17)),
     sum_b |-> Sum(Take(Skip(adj, 18), 29)),
     sum_c |-> Sum(Take(Skip(adj, 46), 9))]

\* slip: the last window takes the remaining 11 answers instead of 9
SumupSums_TakeEleven(adj) ==
    [sum_a |-> Sum(Take(adj, 17)),
     sum_b |-> Sum(Take(Skip(adj, 17), 29)),
     sum_c |-> Sum(Take(Skip(adj, 46), 11))]

\* the three windows of the SumupScore literal
SumupSums(adj) ==
    [sum_a |-> Sum(Take(adj, 17)),
     sum_b |-> Sum(Take(Skip(adj, 17), 29)),
     sum_c |-> Sum(Take(Skip(adj, 46), 9))]

\* The possible returns of to_sumup_score. An arithmetic overflow panics in a
\* build with overflow checks and wraps around in one without.
to_sumup_score(vs) ==
    IF AnyUnset(vs)
    THEN {[res |-> "NotFullfilled", val |-> <<>>, local |-> <<>>]}
    ELSE LET adj == SumupAdjusted(vs)
             s == SumupSums(adj)
             fits == /\ \A i \in 1..Len(adj) : Fits(adj[i])
                     /\ Fits(s.sum_a) /\ Fits(s.sum_b) /\ Fits(s.sum_c)
             ok == [res |-> "Ok",
                    val |-> [kind |-> "SumupScore",
                             sum_a |-> Wrap(s.sum_a),
                             sum_b |-> Wrap(s.sum_b),
                             sum_c |-> Wrap(s.sum_c)],
                    local |-> [i \in 1..Len(adj) |-> Wrap(adj[i])]]
         IN IF fits THEN {ok}
            ELSE {ok, [res |-> "Panic", val |-> <<>>, local |-> <<>>]}

----------------------------------------------------------------------------
(* AnswerStore::to_conversion_score: the IntermediateConversionScore literal *)

\* the 0-based indices read with values.get(..).ok_or(IllegalAnswer)?
GetIndices == {6, 13, 14, 10, 15, 16, 46, 49, 52, 47, 50, 53, 48, 51, 54}

\* values.get(i) unwrapped; 0 stands in where get returns None
At(vs, i) == IF Get(vs, i) = <<>> THEN 0 ELSE Get(vs, i)[1]

\* the windowed sum values.iter().skip(n).take(k).sum::<u8>()
Window(vs, n, k) == Sum(Take(Skip(vs, n), k))

\* The IntermediateConversionScore literal: raw, the 18 raw sub-scale sums
\* as unbounded integers, and steps, every value a u8 operation of the
\* literal produces on the way.
ConversionWork(vs) ==
    LET volume == Window(vs, 0, 3)
        quality == Window(vs, 3, 3)
        people == Window(vs, 11, 2)
        control == Window(vs, 7, 3)
        vitality == Window(vs, 17, 3)
        iraira == Window(vs, 20, 3)
        tired == Window(vs, 23, 3)
        anxious == Window(vs, 26, 3)
        depressed == Window(vs, 29, 6)
        physical == Window(vs, 35, 11)
        boss2 == At(vs, 46) + At(vs, 49)
        boss == boss2 + At(vs, 52)
        colleague2 == At(vs, 47) + At(vs, 50)
        colleague == colleague2 + At(vs, 53)
        family2 == At(vs, 48) + At(vs, 51)
        family == family2 + At(vs, 54)
    IN [raw |->
            [mental_work_stress_volume |-> 15 - volume,
             mental_work_stress_quality |-> 15 - quality,
             aware_physical_stress |-> 5 - At(vs, 6),
             work_people_stress |-> 10 - people + At(vs, 13),
             work_env_stress |-> 5 - At(vs, 14),
             work_control |-> 15 - control,
             skill_apply |-> At(vs, 10),
             work_apply |-> 5 - At(vs, 15),
             decent_work |-> 5 - At(vs, 16),
             vitality |-> vitality,
             iraira |-> iraira,
             tired |-> tired,
             anxious |-> anxious,
             depressed |-> depressed,
             physical_complaint |-> physical,
             boss_support |-> 15 - boss,
             colleague_support |-> 15 - colleague,
             family_support |-> 15 - family],
        steps |->
            {volume, 15 - volume, quality, 15 - quality, 5 - At(vs, 6),
             people, 10 - people, 10 - people + At(vs, 13), 5 - At(vs, 14),
             control, 15 - control, 5 - At(vs, 15), 5 - At(vs, 16),
             vitality, iraira, tired, anxious, depressed, physical,
             boss2, boss, 15 - boss, colleague2, colleague, 15 - colleague,
             family2, family, 15 - family}]

\* the 18 raw sub-scale sums, as unbounded integers
Intermediate(vs) == ConversionWork(vs).raw

----------------------------------------------------------------------------
(* TryFrom<IntermediateConversionScore> for ConversionScore: one lookup    *)
(* table per sub-scale; 0 is the `_ => return Err(IllegalAnswer)` arm.     *)

In(s, lo, hi) == s >= lo /\ s <= hi

conv_mental_work_stress_volume(s) ==
    IF In(s, 3, 5) THEN 5 ELSE IF In(s, 6, 7) THEN 4 ELSE IF In(s, 8, 9) THEN 3
    ELSE IF In(s, 10, 11) THEN 2 ELSE IF s = 12 THEN 1 ELSE 0

conv_mental_work_stress_quality(s) ==
    IF In(s, 3, 5) THEN 5 ELSE IF In(s, 6, 7) THEN 4 ELSE IF In(s, 8, 9) THEN 3
    ELSE IF In(s, 10, 11) THEN 2 ELSE IF s = 12 THEN 1 ELSE 0

conv_aware_physical_stress(s) ==
    IF s = 1 THEN 4 ELSE IF s = 2 THEN 3 ELSE IF s = 3 THEN 2
    ELSE IF s = 4 THEN 1 ELSE 0

conv_work_people_stress(s) ==
    IF s = 3 THEN 5 ELSE IF In(s, 4, 5) THEN 4 ELSE IF In(s, 6, 7) THEN 3
    ELSE IF In(s, 8, 9) THEN 2 ELSE IF In(s, 10, 12) THEN 1 ELSE 0

conv_work_env_stress(s) ==
    IF s = 1 THEN 4 ELSE IF s = 2 THEN 3 ELSE IF s = 3 THEN 2
    ELSE IF s = 4 THEN 1 ELSE 0

\* slip: the table runs in the direction of the burden sub-scales
conv_work_control_Reversed(s) ==
    IF In(s, 3, 4) THEN 5 ELSE IF In(s, 5, 6) THEN 4 ELSE IF In(s, 7, 8) THEN 3
    ELSE IF In(s, 9, 10) THEN 2 ELSE IF In(s, 11, 12) THEN 1 ELSE 0

conv_work_control(s) ==
    IF In(s, 3, 4) THEN 1 ELSE IF In(s, 5, 6) THEN 2 ELSE IF In(s, 7, 8) THEN 3
    ELSE IF In(s, 9, 10) THEN 4 ELSE IF In(s, 11, 12) THEN 5 ELSE 0

conv_skill_apply(s) ==
    IF s = 1 THEN 1 ELSE IF s = 2 THEN 2 ELSE IF s = 3 THEN 3
    ELSE IF s = 4 THEN 4 ELSE 0

conv_work_apply(s) ==
    IF s = 1 THEN 1 ELSE IF s = 2 THEN 2 ELSE IF s = 3 THEN 3
    ELSE IF s = 4 THEN 5 ELSE 0

conv_decent_work(s) ==
    IF s = 1 THEN 1 ELSE IF s = 2 THEN 2 ELSE IF s = 3 THEN 3
    ELSE IF s = 4 THEN 5 ELSE 0

conv_vitality(s) ==
    IF s = 3 THEN 1 ELSE IF In(s, 4, 5) THEN 2 ELSE IF In(s, 6, 7) THEN 3
    ELSE IF In(s, 8, 9) THEN 4 ELSE IF In(s, 10, 12) THEN 5 ELSE 0

conv_iraira(s) ==
    IF s = 3 THEN 5 ELSE IF In(s, 4, 5) THEN 4 ELSE IF In(s, 6, 7) THEN 3
    ELSE IF In(s, 8, 9) THEN 2 ELSE IF In(s, 10, 12) THEN 1 ELSE 0

conv_tired(s) ==
    IF s = 3 THEN 5 ELSE IF s = 4 THEN 4 ELSE IF In(s, 5, 7) THEN 3
    ELSE IF In(s, 8, 10) THEN 2 ELSE IF In(s, 11, 12) THEN 1 ELSE 0

conv_anxious(s) ==
    IF s = 3 THEN 5 ELSE IF s = 4 THEN 4 ELSE IF In(s, 5, 7) THEN 3
    ELSE IF In(s, 8, 9) THEN 2 ELSE IF In(s, 10, 12) THEN 1 ELSE 0

conv_depressed(s) ==
    IF s = 6 THEN 5 ELSE IF In(s, 7, 8) THEN 4 ELSE IF In(s, 9, 12) THEN 3
    ELSE IF In(s, 13, 16) THEN 2 ELSE IF In(s, 17, 24) THEN 1 ELSE 0

\* slip: the last range stops one short of the largest raw sum
conv_physical_complaint_Short(s) ==
    IF s = 11 THEN 5 ELSE IF In(s, 12, 15) THEN 4 ELSE IF In(s, 16, 21) THEN 3
    ELSE IF In(s, 22, 26) THEN 2 ELSE IF In(s, 27, 43) THEN 1 ELSE 0

conv_physical_complaint(s) ==
    IF s = 11 THEN 5 ELSE IF In(s, 12, 15) THEN 4 ELSE IF In(s, 16, 21) THEN 3
    ELSE IF In(s, 22, 26) THEN 2 ELSE IF In(s, 27, 44) THEN 1 ELSE 0

conv_boss_support(s) ==
    IF In(s, 3, 4) THEN 1 ELSE IF In(s, 5, 6) THEN 2 ELSE IF In(s, 7, 8) THEN 3
    ELSE IF In(s, 9, 10) THEN 4 ELSE IF In(s, 11, 12) THEN 5 ELSE 0

conv_colleague_support(s) ==
    IF In(s, 3, 5) THEN 1 ELSE IF In(s, 6, 7) THEN 2 ELSE IF In(s, 8, 9) THEN 3
    ELSE IF In(s, 10, 11) THEN 4 ELSE IF s = 12 THEN 5 ELSE 0

conv_family_support(s) ==
    IF In(s, 3, 6) THEN 1 ELSE IF In(s, 7, 8) THEN 2 ELSE IF s = 9 THEN 3
    ELSE IF In(s, 10, 11) THEN 4 ELSE IF s = 12 THEN 5 ELSE 0

\* the field names of IntermediateConversionScore and ConversionScore
Fields ==
    {"mental_work_stress_volume", "mental_work_stress_quality",
     "aware_physical_stress", "work_people_stress", "work_env_stress",
     "work_control", "skill_apply", "work_apply", "decent_work",
     "vitality", "iraira", "tired", "anxious", "depressed",
     "physical_complaint",
     "boss_support", "colleague_support", "family_support"}

\* the ConversionScore literal of try_from, before the early returns
Lookup(score) ==
    [mental_work_stress_volume |->
         conv_mental_work_stress_volume(score.mental_work_stress_volume),
     mental_work_stress_quality |->
         conv_mental_work_stress_quality(score.mental_work_stress_quality),
     aware_physical_stress |->
         conv_aware_physical_stress(score.aware_physical_stress),
     work_people_stress |-> conv_work_people_stress(score.work_people_stress),
     work_env_stress |-> conv_work_env_stress(score.work_env_stress),
     work_control |-> conv_work_control(score.work_control),
     skill_apply |-> conv_skill_apply(score.skill_apply),
     work_apply |-> conv_work_apply(score.work_apply),
     decent_work |-> conv_decent_work(score.decent_work),
     vitality |-> conv_vitality(score.vitality),
     iraira |-> conv_iraira(score.iraira),
     tired |-> conv_tired(score.tired),
     anxious |-> conv_anxious(score.anxious),
     depressed |-> conv_depressed(score.depressed),
     physical_complaint |-> conv_physical_complaint(score.physical_complaint),
     boss_support |-> conv_boss_support(score.boss_support),
     colleague_support |-> conv_colleague_support(score.colleague_support),
     family_support |-> conv_family_support(score.family_support)]

\* try_from: Err(IllegalAnswer) as soon as one table has no arm for its input
try_from(score) ==
    LET points == Lookup(score)
    IN IF \E f \in Fields : points[f] = 0
       THEN [res |-> "IllegalAnswer", val |-> <<>>, local |-> score]
       ELSE [res |-> "Ok",
             val |-> [kind |-> "ConversionScore", points |-> points],
             local |-> score]

\* The possible returns of to_conversion_score.
to_conversion_score(vs) ==
    IF AnyUnset(vs)
    THEN {[res |-> "NotFullfilled", val |-> <<>>, local |-> <<>>]}
    ELSE IF \E i \in GetIndices : Get(vs, i) = <<>>
    THEN {[res |-> "IllegalAnswer", val |-> <<>>, local |-> <<>>]}
    ELSE LET work == ConversionWork(vs)
             wrapped == [f \in Fields |-> Wrap(work.raw[f])]
             returned == try_from(wrapped)
         IN IF \A x \in work.steps : Fits(x) THEN {returned}
            ELSE {returned, [res |-> "Panic", val |-> <<>>, local |-> <<>>]}

----------------------------------------------------------------------------
(* impl Stress for SumupScore / ConversionScore *)

\* the three additions of ConversionScore::scores, as unbounded integers
ConversionSums(p) ==
    <<p.mental_work_stress_volume + p.mental_work_stress_quality
          + p.aware_physical_stress + p.work_people_stress + p.work_env_stress
          + p.work_control + p.skill_apply + p.work_apply + p.decent_work,
      p.vitality + p.iraira + p.tired + p.anxious + p.depressed
          + p.physical_complaint,
      p.boss_support + p.colleague_support + p.family_support>>

\* The possible returns of scores().
scores(val) ==
    IF val.kind = "SumupScore"
    THEN {<<"scores", val.sum_a, val.sum_b, val.sum_c>>}
    ELSE LET t == ConversionSums(val.points)
             wrapped == <<"scores", Wrap(t[1]), Wrap(t[2]), Wrap(t[3])>>
         IN IF Fits(t[1]) /\ Fits(t[2]) /\ Fits(t[3]) THEN {wrapped}
            ELSE {wrapped, <<"Panic">>}

\* slip: the A + C threshold is exclusive
SumupRule_Strict(ac, sum_b) == sum_b >= 77 \/ (ac > 76 /\ sum_b >= 63)

\* the threshold rule of SumupScore::has_stress on (sum_a + sum_c, sum_b)
SumupRule(ac, sum_b) == sum_b >= 77 \/ (ac >= 76 /\ sum_b >= 63)

\* the threshold rule of ConversionScore::has_stress on (sum_a + sum_c, sum_b)
ConversionRule(ac, sum_b) == sum_b <= 12 \/ (ac <= 26 /\ sum_b <= 17)

\* the returns of has_stress() on a ConversionScore whose scores() gave s
ConversionStress(s) ==
    LET ac == s[2] + s[4]
        wrapped == <<"has_stress", ConversionRule(Wrap(ac), s[3]),
                     <<s[2], s[3], s[4]>>>>
    IN IF s = <<"Panic">> THEN {s}
       ELSE IF s[3] <= 12 \/ Fits(ac) THEN {wrapped}
       ELSE {wrapped, <<"Panic">>}

\* The possible returns of has_stress(). sum_a + sum_c is a u8 addition,
\* evaluated only when the first disjunct is false.
has_stress(val) ==
    IF val.kind = "SumupScore"
    THEN LET ac == val.sum_a + val.sum_c
             wrapped == <<"has_stress", SumupRule(Wrap(ac), val.sum_b)>>
         IN IF val.sum_b >= 77 \/ Fits(ac) THEN {wrapped}
            ELSE {wrapped, <<"Panic">>}
    ELSE UNION {ConversionStress(s) : s \in scores(val)}

----------------------------------------------------------------------------
(* The store and its callers *)

\* AnswerStore::default()
DefaultValues == [i \in 1..NumQuestions |-> 0]

NoResult == [op |-> "none", args |-> <<>>, res |-> "none", val |-> <<>>,
             local |-> <<>>]

Returned(op, args, r) ==
    [op |-> op, args |-> args, res |-> r.res, val |-> r.val, local |-> r.local]

Unit(res) == [res |-> res, val |-> <<>>, local |-> <<>>]

Init ==
    /\ values = DefaultValues
    /\ offset = 0
    /\ last = 0
    /\ runs = 0
    /\ result = NoResult
    /\ out = <<>>

\* slip: 5 passes as an answer
PushAccepts_Five(score) == score >= 1 /\ score <= 5

\* (1..=4).contains(&score) of push
PushAccepts(score) == score >= 1 /\ score <= 4

\* slip: the bound is inclusive
PushHasRoom_Inclusive(at) == at <= NumQuestions

\* self.offset < 57 of push
PushHasRoom(at) == at < NumQuestions

\* slip: offset is advanced before the write
PushIndex_Advanced(at) == at + 1

\* self.values[self.offset]: the 0-based index push writes
PushIndex(at) == at

\* AnswerStore::push
Push(score) ==
    /\ out' = <<>>
    /\ IF PushAccepts(score)
       THEN IF PushHasRoom(offset)
            THEN /\ score # last => runs < MaxRuns
                 /\ values' = [values EXCEPT ![PushIndex(offset) + 1] = score]
                 /\ offset' = offset + 1
                 /\ last' = score
                 /\ runs' = IF score # last THEN runs + 1 ELSE runs
                 /\ result' = Returned("push", <<score>>, Unit("Ok"))
            ELSE /\ result' = Returned("push", <<score>>, Unit("IllegalQuestion"))
                 /\ UNCHANGED <<values, offset, last, runs>>
       ELSE /\ result' = Returned("push", <<score>>, Unit("IllegalAnswer"))
            /\ UNCHANGED <<values, offset, last, runs>>

\* slip: the unset sentinel 0 passes as an answer
InsertAccepts_Zero(score) == score >= 0 /\ score <= 4

\* (1..=4).contains(&score) of insert
InsertAccepts(score) == score >= 1 /\ score <= 4

\* offset < 57 of insert, on the local offset = question_no - 1
InsertInRange(at) == at < NumQuestions

\* slip: the question number is used as the 0-based index
InsertIndex_NoShift(question_no) == question_no

\* let offset: usize = (question_no - 1).into()
InsertIndex(question_no) == question_no - 1

\* AnswerStore::insert
Insert(question_no, score) ==
    /\ out' = <<>>
    /\ UNCHANGED <<offset, last, runs>>
    /\ IF question_no < 1
       THEN /\ result' = Returned("insert", <<question_no, score>>,
                                  Unit("IllegalQuestion"))
            /\ UNCHANGED values
       ELSE IF InsertAccepts(score)
            THEN IF InsertInRange(InsertIndex(question_no))
                 THEN /\ values' = [values EXCEPT
                                       ![InsertIndex(question_no) + 1] = score]
                      /\ result' = Returned("insert", <<question_no, score>>,
                                            Unit("Ok"))
                 ELSE /\ result' = Returned("insert", <<question_no, score>>,
                                            Unit("IllegalQuestion"))
                      /\ UNCHANGED values
            ELSE /\ result' = Returned("insert", <<question_no, score>>,
                                       Unit("IllegalAnswer"))
                 /\ UNCHANGED values

ToSumupScore ==
    /\ \E r \in to_sumup_score(values) :
           result' = Returned("to_sumup_score", <<>>, r)
    /\ out' = <<>>
    /\ UNCHANGED <<values, offset, last, runs>>

ToConversionScore ==
    /\ \E r \in to_conversion_score(values) :
           result' = Returned("to_conversion_score", <<>>, r)
    /\ out' = <<>>
    /\ UNCHANGED <<values, offset, last, runs>>

\* result holds a SumupScore or a ConversionScore
HoldsScore ==
    /\ result.op \in {"to_sumup_score", "to_conversion_score", "literal"}
    /\ result.res = "Ok"

HasStress ==
    /\ HoldsScore
    /\ out' \in has_stress(result.val)
    /\ UNCHANGED <<values, offset, last, runs, result>>

Next ==
    \/ \E score \in ScoreInputs : Push(score)
    \/ \E question_no \in QuestionInputs, score \in ScoreInputs :
           Insert(question_no, score)
    \/ ToSumupScore
    \/ ToConversionScore
    \/ HasStress

Spec == Init /\ [][Next]_vars

----------------------------------------------------------------------------
(* Scoring as a function of the store: every fully populated store that    *)
(* pushes of at most MaxLevels runs of equal answers build, and the        *)
(* SumupScore literals of test_sumup_score_stress.                         *)

Uniform(a) == [i \in 1..NumQuestions |-> a]

RECURSIVE LevelStores(_)
LevelStores(n) ==
    IF n <= 1 THEN {Uniform(a) : a \in Answers}
    ELSE LET prev == LevelStores(n - 1)
         IN prev \cup {[i \in 1..NumQuestions |-> IF i <= k THEN s[i] ELSE b] :
                          s \in prev, k \in 1..(NumQuestions - 1), b \in Answers}

RunsOf(vs) == 1 + Cardinality({i \in 2..Len(vs) : vs[i] # vs[i - 1]})

SumupLiterals ==
    {[kind |-> "SumupScore", sum_a |-> t[1], sum_b |-> t[2], sum_c |-> t[3]] :
        t \in {<<17, 76, 9>>, <<17, 77, 9>>, <<46, 62, 30>>, <<46, 63, 30>>,
               <<45, 63, 30>>}}

InitScore ==
    /\ out = <<>>
    /\ \/ /\ values \in LevelStores(MaxLevels)
          /\ offset = NumQuestions
          /\ last = values[NumQuestions]
          /\ runs = RunsOf(values)
          /\ result = NoResult
       \/ /\ values = DefaultValues
          /\ offset = 0
          /\ last = 0
          /\ runs = 0
          /\ \E s \in SumupLiterals :
                 result = [op |-> "literal", args |-> <<>>, res |-> "Ok",
                           val |-> s, local |-> <<>>]

NextScore ==
    \/ ToSumupScore
    \/ ToConversionScore
    \/ HasStress

SpecScore == InitScore /\ [][NextScore]_vars

----------------------------------------------------------------------------
(* Properties *)

\* the sum of f[i] over the positions lo..hi
RECURSIVE SumAt(_, _, _)
SumAt(f, lo, hi) == IF lo > hi THEN 0 ELSE f[lo] + SumAt(f, lo + 1, hi)

\* the sum of p[f] over the fields f in F
RECURSIVE SumFields(_, _)
SumFields(p, F) ==
    IF F = {} THEN 0
    ELSE LET f == CHOOSE x \in F : TRUE IN p[f] + SumFields(p, F \ {f})

\* the question numbers whose answers are reverse-scored
ReverseSet == (1..7) \cup (11..13) \cup {15} \cup (18..20)

\* the reverse-adjusted answers of the store
AdjustedAnswers == [n \in 1..NumQuestions |-> reverse_if(n, values[n])]

SumupReturned == result.op = "to_sumup_score" /\ result.res = "Ok"

ConversionReturned == result.op = "to_conversion_score" /\ result.res = "Ok"

StressReturned == HoldsScore /\ Len(out) >= 2 /\ out[1] = "has_stress"

\* C1 as stated: to_sumup_score returns sum_a = the sum of the adjusted
\* answers at positions 1..17, sum_b = that at 18..46 and sum_c = that at
\* 47..57, the answers to questions 56 and 57 included.
C1_SumCThroughLast ==
    SumupReturned =>
        /\ result.val.sum_a = SumAt(AdjustedAnswers, 1, 17)
        /\ result.val.sum_b = SumAt(AdjustedAnswers, 18, 46)
        /\ result.val.sum_c = SumAt(AdjustedAnswers, 47, 57)

\* C1 amended: to_sumup_score returns sum_a = the sum of the adjusted answers
\* at positions 1..17, sum_b = that at 18..46 and sum_c = that at the nine
\* positions 47..55; the answers to questions 56 and 57 enter no sum.
C1_SumupWindows ==
    SumupReturned =>
        /\ result.val.sum_a = SumAt(AdjustedAnswers, 1, 17)
        /\ result.val.sum_b = SumAt(AdjustedAnswers, 18, 46)
        /\ result.val.sum_c = SumAt(AdjustedAnswers, 47, 55)

\* a store whose answers change between questions 55 and 56 has been scored
C1_Witness ==
    /\ SumupReturned
    /\ values[55] = 1 /\ values[56] = 4 /\ values[57] = 4
    /\ result.val.sum_c = 9

\* C2: with at least one slot unset both scorers fail with NotFullfilled,
\* and to_sumup_score succeeds whenever all 57 slots are set.
C2_NotFullfilled ==
    LET unset == {i \in 1..NumQuestions : values[i] = 0}
    IN /\ result.op \in {"to_sumup_score", "to_conversion_score"} /\ unset # {}
            => result.res = "NotFullfilled"
       /\ result.op = "to_sumup_score" /\ unset = {} => result.res = "Ok"

\* slot 56 alone is unset (57 was inserted ahead of the pushes) and
\* to_conversion_score failed
C2_Witness ==
    /\ result.op = "to_conversion_score"
    /\ result.res = "NotFullfilled"
    /\ {i \in 1..NumQuestions : values[i] = 0} = {56}

\* C3: push(a) fails with IllegalAnswer when a is outside 1..4, else with
\* IllegalQuestion when offset = 57, else writes a at position offset,
\* changes no other slot and advances offset by one; a failing push changes
\* neither the slots nor offset.
C3_PushContract ==
    [][result'.op = "push" =>
          LET a == result'.args[1]
          IN IF a < 1 \/ a > 4
             THEN /\ result'.res = "IllegalAnswer"
                  /\ values' = values /\ offset' = offset
             ELSE IF offset = NumQuestions
             THEN /\ result'.res = "IllegalQuestion"
                  /\ values' = values /\ offset' = offset
             ELSE /\ result'.res = "Ok"
                  /\ offset < NumQuestions
                  /\ offset' = offset + 1
                  /\ Len(values') = NumQuestions
                  /\ values'[offset + 1] = a
                  /\ \A i \in 1..NumQuestions :
                         i # offset + 1 => values'[i] = values[i]]_vars

\* the push after 57 successful pushes was rejected
C3_Witness ==
    /\ result.op = "push"
    /\ result.res = "IllegalQuestion"
    /\ offset = NumQuestions

\* C4 as stated: insert fails with IllegalQuestion whenever question_number
\* is 0 or above 57, whatever the answer; with IllegalAnswer when the
\* question number is in 1..57 and the answer outside 1..4; and succeeds
\* otherwise.
C4_InsertContract ==
    result.op = "insert" =>
        LET q == result.args[1]
            a == result.args[2]
        IN result.res = IF q = 0 \/ q > NumQuestions THEN "IllegalQuestion"
                        ELSE IF a < 1 \/ a > 4 THEN "IllegalAnswer"
                        ELSE "Ok"

\* C5: the store always has exactly 57 slots, each 0 or in 1..4, and offset
\* is in 0..57.
C5_StoreInvariant ==
    /\ Len(values) = NumQuestions
    /\ \A i \in 1..NumQuestions : values[i] \in 0..4
    /\ offset \in 0..NumQuestions

\* a full store, changed by an insert, has just rejected an insert
C5_Witness ==
    /\ offset = NumQuestions
    /\ result.op = "insert"
    /\ result.res = "IllegalAnswer"
    /\ values[1] # values[2]

\* C6: the adjusted answer of question n is 5 - v for n in
\* {1..7, 11..13, 15, 18..20} and v for every other n.
C6_ReverseAdjustment ==
    SumupReturned =>
        \A n \in 1..NumQuestions :
            result.local[n] = IF n \in ReverseSet THEN 5 - values[n]
                              ELSE values[n]

\* questions 13..16 all answered 4 have been adjusted to 1, 4, 1, 4
C6_Witness ==
    /\ SumupReturned
    /\ \A n \in 13..16 : values[n] = 4
    /\ result.local[13] = 1 /\ result.local[14] = 4
    /\ result.local[15] = 1 /\ result.local[16] = 4

\* C7: on a fully populated store to_conversion_score succeeds (no
\* IllegalAnswer, no arithmetic overflow), every raw sub-scale sum is a u8
\* inside its table and every evaluation point is in 1..5.
C7_ConversionTotal ==
    result.op = "to_conversion_score" /\ (\A i \in 1..NumQuestions : values[i] # 0)
        => /\ result.res = "Ok"
           /\ \A f \in Fields : result.local[f] \in 0..(U8Modulus - 1)
           /\ result.local = Intermediate(values)
           /\ \A f \in Fields : result.val.points[f] \in 1..5

\* the largest physical-complaint raw sum (44) has been converted
C7_Witness ==
    /\ ConversionReturned
    /\ result.local.physical_complaint = 44
    /\ result.val.points.physical_complaint = 1

\* the sub-scales of the three domains
DomainA == {"mental_work_stress_volume", "mental_work_stress_quality",
            "aware_physical_stress", "work_people_stress", "work_env_stress",
            "work_control", "skill_apply", "work_apply", "decent_work"}
DomainB == {"vitality", "iraira", "tired", "anxious", "depressed",
            "physical_complaint"}
DomainC == {"boss_support", "colleague_support", "family_support"}

SumupLiteral(a, b, c) ==
    [kind |-> "SumupScore", sum_a |-> a, sum_b |-> b, sum_c |-> c]

\* C8: has_stress is the threshold rule of the score kind, without overflow:
\* sum_b >= 77 or (sum_a + sum_c >= 76 and sum_b >= 63) on a SumupScore,
\* sum_b <= 12 or (sum_a + sum_c <= 26 and sum_b <= 17) on the domain sums
\* of a ConversionScore; and the five sum-up boundary cases.
C8_StressRule ==
    /\ HoldsScore /\ out # <<>> => out[1] # "Panic"
    /\ StressReturned =>
         IF result.val.kind = "SumupScore"
         THEN LET a == result.val.sum_a
                  b == result.val.sum_b
                  c == result.val.sum_c
              IN out[2] = (b >= 77 \/ (a + c >= 76 /\ b >= 63))
         ELSE LET a == SumFields(result.val.points, DomainA)
                  b == SumFields(result.val.points, DomainB)
                  c == SumFields(result.val.points, DomainC)
              IN out[2] = (b <= 12 \/ (a + c <= 26 /\ b <= 17))
    /\ StressReturned =>
         /\ result.val = SumupLiteral(17, 76, 9) => out[2] = FALSE
         /\ result.val = SumupLiteral(17, 77, 9) => out[2] = TRUE
         /\ result.val = SumupLiteral(46, 62, 30) => out[2] = FALSE
         /\ result.val = SumupLiteral(46, 63, 30) => out[2] = TRUE
         /\ result.val = SumupLiteral(45, 63, 30) => out[2] = FALSE

\* has_stress has answered true on the boundary score (46, 63, 30)
C8_Witness ==
    /\ result.op = "literal"
    /\ result.val = SumupLiteral(46, 63, 30)
    /\ out = <<"has_stress", TRUE>>

\* C9: on a store filled with 57 pushes of the same v, to_sumup_score
\* returns (11*(5-v) + 6*v, 3*(5-v) + 26*v, 9*v): (50, 38, 9) without stress
\* for v = 1 and (35, 107, 36) with stress for v = 4.
C9_UniformSumup ==
    \A v \in Answers :
        values = Uniform(v) /\ result.op = "to_sumup_score" =>
            /\ result.res = "Ok"
            /\ result.val.sum_a = 11 * (5 - v) + 6 * v
            /\ result.val.sum_b = 3 * (5 - v) + 26 * v
            /\ result.val.sum_c = 9 * v
            /\ v = 1 => result.val = SumupLiteral(50, 38, 9)
            /\ v = 4 => result.val = SumupLiteral(35, 107, 36)
            /\ StressReturned /\ v = 1 => out[2] = FALSE
            /\ StressReturned /\ v = 4 => out[2] = TRUE

\* the all-4 store has been scored and found in high stress
C9_Witness ==
    /\ values = Uniform(4)
    /\ offset = NumQuestions /\ runs = 1
    /\ result.op = "to_sumup_score"
    /\ result.val = SumupLiteral(35, 107, 36)
    /\ out = <<"has_stress", TRUE>>

\* the evaluation points of the all-1 store
AllOnesPoints ==
    [mental_work_stress_volume |-> 1, mental_work_stress_quality |-> 1,
     aware_physical_stress |-> 1, work_people_stress |-> 2,
     work_env_stress |-> 1, work_control |-> 5, skill_apply |-> 1,
     work_apply |-> 5, decent_work |-> 5,
     vitality |-> 1, iraira |-> 5, tired |-> 5, anxious |-> 5,
     depressed |-> 5, physical_complaint |-> 5,
     boss_support |-> 5, colleague_support |-> 5, family_support |-> 5]

\* C10: on a store filled with 57 pushes of 1, to_conversion_score succeeds
\* with the evaluation points A = (1,1,1,2,1,5,1,5,5), B = (1,5,5,5,5,5),
\* C = (5,5,5); scores() is (22, 26, 15) and has_stress is false.
C10_AllOnesConversion ==
    values = Uniform(1) /\ result.op = "to_conversion_score" =>
        /\ result.res = "Ok"
        /\ result.val.points = AllOnesPoints
        /\ out # <<>> => out = <<"has_stress", FALSE, <<22, 26, 15>>>>

\* 57 pushes of 1 and nothing else filled the store, and has_stress returned
C10_Witness ==
    /\ values = Uniform(1)
    /\ offset = NumQuestions /\ last = 1 /\ runs = 1
    /\ ConversionReturned
    /\ out = <<"has_stress", FALSE, <<22, 26, 15>>>>

\* C11: to_sumup_score returns sum_a in 17..68, sum_b in 29..116 and sum_c
\* in 9..36, each the unwrapped sum of its window, and sum_a + sum_c in
\* has_stress is at most 104: no u8 sum wraps around or exceeds 255.
C11_SumupRanges ==
    /\ result.op = "to_sumup_score" => result.res # "Panic"
    /\ SumupReturned =>
         /\ result.val.sum_a \in 17..68
         /\ result.val.sum_b \in 29..116
         /\ result.val.sum_c \in 9..36
         /\ result.val.sum_a + result.val.sum_c <= 104
         /\ result.val = [kind |-> "SumupScore"] @@ SumupSums(result.local)
         /\ out # <<>> => out[1] # "Panic"

\* the largest sum_b (116) and sum_c (36) were returned and has_stress
\* evaluated on them
C11_Witness ==
    /\ SumupReturned
    /\ result.val.sum_b = 116 /\ result.val.sum_c = 36
    /\ out = <<"has_stress", TRUE>>

\* C12: insert never changes offset; a successful insert(q, a) sets the
\* slot of question q to a and leaves the other 56 slots unchanged; a
\* failing insert leaves all 57 slots unchanged.
C12_InsertFrame ==
    [][result'.op = "insert" =>
          LET q == result'.args[1]
              a == result'.args[2]
          IN /\ offset' = offset
             /\ Len(values') = NumQuestions
             /\ IF result'.res = "Ok"
                THEN /\ q \in 1..NumQuestions
                     /\ values'[q] = a
                     /\ \A i \in 1..NumQuestions :
                            i # q => values'[i] = values[i]
                ELSE values' = values]_vars

\* an insert has overwritten slot 1 of a store filled by pushes of another
\* answer
C12_Witness ==
    /\ result.op = "insert"
    /\ result.res = "Ok"
    /\ result.args = <<1, 4>>
    /\ offset = NumQuestions
    /\ values[1] = 4 /\ last = 1

\* C13: every slot at a position below offset (questions 1..offset) is set,
\* so when offset = 57 neither scorer fails with NotFullfilled.
C13_PushedSlotsSet ==
    /\ \A i \in 1..NumQuestions : i <= offset => values[i] # 0
    /\ offset = NumQuestions
           /\ result.op \in {"to_sumup_score", "to_conversion_score"}
       => result.res # "NotFullfilled"

\* offset understates the populated slots: question 57 was inserted ahead
\* of the pushes, which have reached some earlier question
C13_Witness ==
    /\ offset \in 1..(NumQuestions - 2)
    /\ values[offset + 1] = 0
    /\ values[NumQuestions] # 0
    /\ result.op = "push"
    /\ result.res = "Ok"

\* C14: in every step a set slot stays set and offset does not decrease; so
\* a fully populated store stays fully populated, and a scorer called on it
\* does not fail with NotFullfilled.
C14_NeverUnset ==
    [][/\ \A i \in 1..NumQuestions : values[i] # 0 => values'[i] # 0
       /\ offset' >= offset
       /\ (\A i \in 1..NumQuestions : values[i] # 0)
              /\ result'.op \in {"to_sumup_score", "to_conversion_score"}
          => result'.res # "NotFullfilled"]_vars

\* a full store whose first slot an insert has rewritten was scored
C14_Witness ==
    /\ offset = NumQuestions
    /\ values[1] # last /\ values[2] = last
    /\ result.op = "to_sumup_score"
    /\ result.res = "Ok"

====
